---- MODULE Spec2Model ----
(***************************************************************************)
(* netthru (src/netthru/main.cpp): a TCP throughput meter.  One process    *)
(* runs doServer (accept one connection at a time, read the control frame, *)
(* stream a generated buffer for the requested time, close), another runs  *)
(* doClient (connect, send the control frame, recvAll until end of         *)
(* stream).  The model has the server process, one netthru client process  *)
(* ("cli"), a second TCP peer ("other") that only connects and closes, the *)
(* kernel's listen queue and the two byte streams of every connection.     *)
(*                                                                         *)
(* Characters are one-character strings; "NUL" stands for the byte 0 and   *)
(* "?" for a byte of memory the program never wrote.                       *)
(***************************************************************************)
EXTENDS Integers, Sequences, FiniteSets, TLC

\* ---------------------------------------------------------------- bounds
\* Largest -secs value a client asks for.
MaxSecs == 1
\* Largest -nbytes value a client asks for.
MaxBuf == 2
\* Seconds a session's clock is followed for.
MaxClock == 1
\* sendAll calls the server completes within one second of its clock.
MaxSendsPerSec == 1
\* recvAll calls of a client session among which calls that return without
\* a full buffer and without end of stream are followed (a call that fills
\* its buffer is followed always: the server's bytes are finitely many).
MaxTimerCalls == 3
\* Bytes the kernel holds in flight from server to client before send blocks.
SockBufCap == 3
\* Bytes the kernel holds in flight from client to server before send blocks.
FrameSockCap == 8

\* ------------------------------------------------------- program constants
\* sizeof(bufFromClient) in handleServerConnection, sizeof(buf) in
\* handleClientConnection.
BufSize == 256

Min(a, b) == IF a < b THEN a ELSE b

\* ------------------------------------------------------------- characters
NUL == "NUL"
GARBAGE == "?"
Digits == <<"0", "1", "2", "3", "4", "5", "6", "7", "8", "9">>

IsDigit(c) == \E d \in 1..10 : Digits[d] = c
DigitVal(c) == (CHOOSE d \in 1..10 : Digits[d] = c) - 1
\* isspace() of the C locale, as far as the model's alphabet goes.
IsSpace(c) == c \in {" ", "\n", "\t"}

\* printf("%d") of a non-negative number.
RECURSIVE NatToChars(_)
NatToChars(n) ==
    IF n < 10 THEN <<Digits[n + 1]>>
    ELSE NatToChars(n \div 10) \o <<Digits[(n % 10) + 1]>>

\* printf("%d").
IntToChars(n) == IF n < 0 THEN <<"-">> \o NatToChars(0 - n) ELSE NatToChars(n)

\* The digits at the head of s, accumulated onto acc (the loop of atoi).
RECURSIVE AtoiDigits(_, _)
AtoiDigits(s, acc) ==
    IF s = <<>> \/ ~IsDigit(Head(s)) THEN acc
    ELSE AtoiDigits(Tail(s), 10 * acc + DigitVal(Head(s)))

\* atoi(): skip white space, take an optional sign, read digits up to the
\* first character that is none; no digits gives 0.
RECURSIVE atoi(_)
atoi(s) ==
    IF s = <<>> THEN 0
    ELSE IF IsSpace(Head(s)) THEN atoi(Tail(s))
    ELSE IF Head(s) = "-" THEN 0 - AtoiDigits(Tail(s), 0)
    ELSE IF Head(s) = "+" THEN AtoiDigits(Tail(s), 0)
    ELSE AtoiDigits(s, 0)

\* The C string held in a char array: the characters before the first NUL.
CStr(b) ==
    LET nuls == {i \in 1..Len(b) : b[i] = NUL}
    IN  IF nuls = {} THEN b
        ELSE SubSeq(b, 1, (CHOOSE i \in nuls : \A j \in nuls : i <= j) - 1)

\* strchr(s, c) != NULL.
HasChar(s, c) == \E i \in 1..Len(s) : s[i] = c

\* strtok(..., "|") never returns an empty token, so <<>> stands for NULL.
NullTok == <<>>

\* One strtok call on the C string s with the saved pointer at index pos:
\* skip delimiters, the token runs to the next delimiter or to the end of
\* the string, the saved pointer moves behind that delimiter.
strtok(s, pos) ==
    LET starts == {i \in pos..Len(s) : s[i] # "|"}
    IN  IF starts = {} THEN [tok |-> NullTok, next |-> Len(s) + 1]
        ELSE LET start == CHOOSE i \in starts : \A j \in starts : i <= j
                 ends  == {i \in start..Len(s) : s[i] = "|"}
                 end   == IF ends = {} THEN Len(s) + 1
                          ELSE CHOOSE i \in ends : \A j \in ends : i <= j
             IN  [tok  |-> SubSeq(s, start, end - 1),
                  next |-> IF end <= Len(s) THEN end + 1 ELSE Len(s) + 1]

\* The parse of the control frame in handleServerConnection: the fields
\* keep their initial value (0, 0, "") where the token is missing.
Decode(s) ==
    LET t0 == strtok(s, 1)
        t1 == IF t0.tok # NullTok THEN strtok(s, t0.next) ELSE t0
        t2 == IF t1.tok # NullTok THEN strtok(s, t1.next) ELSE t1
        t3 == IF t2.tok # NullTok THEN strtok(s, t2.next) ELSE t2
    IN  [secsToSend    |-> IF t1.tok # NullTok THEN atoi(t1.tok) ELSE 0,
         bytesPerBuf   |-> IF t2.tok # NullTok THEN atoi(t2.tok) ELSE 0,
         msgFromClient |-> IF t2.tok # NullTok /\ t3.tok # NullTok
                           THEN t3.tok ELSE <<>>]

\* The text snprintf formats in handleClientConnection.
FrameText(secs, bytes_per_buf, msg) ==
    <<"s", "e", "n", "d", "|">> \o IntToChars(secs) \o <<"|">>
        \o IntToChars(bytes_per_buf) \o <<"|">> \o msg \o <<"|", "\n">>

\* snprintf(buf, sizeof(buf), ...): what it stores in buf before the NUL
\* (at most sizeof(buf)-1 characters) and what it returns (the full length).
Encode(secs, bytes_per_buf, msg) ==
    LET text == FrameText(secs, bytes_per_buf, msg)
    IN  [buf    |-> SubSeq(text, 1, Min(Len(text), BufSize - 1)),
         nbytes |-> Len(text)]

\* ------------------------------------------------------------------ state
Peers == {"cli", "other"}
Procs == {"server", "client"}
NoSock == "none"

\* Command-line values of the client (parseCmdLine stores atoi of the text).
SecsSet == 0..MaxSecs
BytesSet == (0 - 1)..MaxBuf
MsgSet == {<<>>, <<"x">>}
SettingsSet == [mode : {"client"}, secs : SecsSet, bytes_per_buf : BytesSet,
                msg : MsgSet]

VARIABLES
    \* kernel and network
    listenQ,        \* connections completed by the kernel, not yet accepted
    connSt,         \* per peer: "none", "pending", "accepted", "closed"
    c2s,            \* per peer: characters in flight to the server
    peerShut,       \* per peer: the peer's end of the connection is closed
    s2c,            \* per peer: number of bytes in flight to the peer
    \* doServer / handleServerConnection
    srvPc, socket_to_client, bufFromClient, nBytesSoFar, freeBytes, nbytes,
    secsToSend, bytesPerBuf, msgFromClient,
    pbuf,           \* the payload buffer: byte values
    srvClock, srvTimeStart, secsSinceStart, totBytesSent, nSends,
    readEnd,        \* how the session's read loop ended (history)
    \* sendAll, one frame per calling process
    sa,
    \* doClient / handleClientConnection
    argv,           \* the command line of the client process (argv[1..])
    cliPc, settings, buf, retval,
    nBytesRec, totBytesRec, bytesRecSinceLastUIUpdate,
    cliClock, cliTimeStart, timeLastUIUpdate, nCallsToTimer,
    nInterim, nFinal,
    \* recvAll
    bEOF, bytesReadSoFar, raCause, raGot

netVars == <<listenQ, connSt, c2s, peerShut, s2c>>
srvVars == <<srvPc, socket_to_client, bufFromClient, nBytesSoFar, freeBytes,
             nbytes, secsToSend, bytesPerBuf, msgFromClient, pbuf,
             srvClock, srvTimeStart, secsSinceStart, totBytesSent, nSends,
             readEnd>>
cliVars == <<argv, cliPc, settings, buf, retval, nBytesRec, totBytesRec,
             bytesRecSinceLastUIUpdate, cliClock, cliTimeStart,
             timeLastUIUpdate, nCallsToTimer, nInterim, nFinal>>
raVars == <<bEOF, bytesReadSoFar, raCause, raGot>>
vars == <<netVars, srvVars, sa, cliVars, raVars>>

\* ------------------------------------------------------- faulty variants
\* Variants of four steps with a fault planted in each; a property that
\* depends on the step it is stated for fails under the variant.

\* close() that leaves the connection open.
SrvClosedStaysOpen(st, p) == st

\* sendAll that returns after its first send.
SendAllLeavesAfterOne(f) == TRUE

\* recvAll that returns what it accumulated when select times out.
RetAccumulatedOnTimeout(soFar) == soFar

\* recvAll that leaves eof alone when recv returns 0.
EofUnsetOnRecvZero == FALSE

\* A receive loop that stops on every return but the end of stream.
LoopOnEofOnly(eof) == eof

\* A connection whose end of stream never reaches the reader.
NeverAtEndOfStream(p) == FALSE

\* isprint() that takes DEL (127) for printable.
IsPrintOrDel(c) == c \in 32..127

\* An interim report that does not ask whether the call returned bytes.
SizeAlwaysGT0(n) == TRUE

\* A streaming loop that goes on while the elapsed time has not passed the
\* duration.
StreamOnUpTo(elapsed, secs) == elapsed <= secs

\* ------------------------------------------------------- initial state
\* sendAll's locals on entry.
SendAllEntry(n) == [nbytes |-> n, totSent |-> 0, offset |-> 0, bOK |-> TRUE]

Init ==
    /\ listenQ = <<>>
    /\ connSt = [p \in Peers |-> "none"]
    /\ c2s = [p \in Peers |-> <<>>]
    /\ peerShut = [p \in Peers |-> FALSE]
    /\ s2c = [p \in Peers |-> 0]
    /\ srvPc = "accept"
    /\ socket_to_client = NoSock
    /\ bufFromClient = <<>>
    /\ nBytesSoFar = 0
    /\ freeBytes = BufSize - 1
    /\ nbytes = 0
    /\ secsToSend = 0
    /\ bytesPerBuf = 0
    /\ msgFromClient = <<>>
    /\ pbuf = <<>>
    /\ srvClock = 0
    /\ srvTimeStart = 0
    /\ secsSinceStart = 0
    /\ totBytesSent = 0
    /\ nSends = 0
    /\ readEnd = "none"
    /\ sa = [p \in Procs |-> SendAllEntry(0)]
    /\ cliPc = "start"
    /\ argv = <<>>
    /\ settings \in SettingsSet
    /\ buf = <<>>
    /\ retval = 0
    /\ nBytesRec = 0
    /\ totBytesRec = 0
    /\ bytesRecSinceLastUIUpdate = 0
    /\ cliClock = 0
    /\ cliTimeStart = 0
    /\ timeLastUIUpdate = 0
    /\ nCallsToTimer = 0
    /\ nInterim = 0
    /\ nFinal = 0
    /\ bEOF = FALSE
    /\ bytesReadSoFar = 0
    /\ raCause = "none"
    /\ raGot = 0


\* ---------------------------------------------------------------- sendAll
\* The length every send call of sendAll asks for: nBytesToSend is set on
\* entry and never changed.
nBytesToSend(f) == f.nbytes

\* One pass of sendAll's loop body, given what send returned.
SendAllStep(f, bytes_sent) ==
    IF bytes_sent < 0 THEN [f EXCEPT !.bOK = FALSE]
    ELSE [f EXCEPT !.totSent = @ + bytes_sent, !.offset = @ + bytes_sent]

\* sendAll leaves its loop: the break on an error, or while(totSent < nbytes)
\* fails.
SendAllLeaves(f) == ~f.bOK \/ ~(f.totSent < f.nbytes)

\* What a blocking send of len bytes returns with room bytes of socket
\* buffer free: the number of bytes that fit (it blocks while there is no
\* room; an empty request returns 0), or -1 where the connection can fail.
SendReturns(len, room, canFail) ==
    (IF canFail THEN {0 - 1} ELSE {})
        \cup (IF len = 0 THEN {0}
              ELSE IF room >= 1 THEN {Min(len, room)} ELSE {})

\* buf[i] of handleClientConnection (i counted from 1): the frame, the NUL
\* snprintf wrote behind it, then memory the program never wrote.
BufAt(b, i) ==
    IF i <= Len(b) THEN b[i] ELSE IF i = Len(b) + 1 THEN NUL ELSE GARBAGE

\* The bytes buf[from+1 .. from+n].
BufSlice(b, from, n) == [i \in 1..n |-> BufAt(b, from + i)]

\* ------------------------------------------------------------ the clocks
\* getCurrentSeconds(): the wall clock does not run backwards within a
\* session and is followed up to MaxClock.
ClockReads(now) == now..MaxClock

\* ------------------------------------------------------------ the server
\* accept() returns a connection (doServer); handleServerConnection is
\* entered and its locals are initialised.
SrvAccept ==
    /\ srvPc = "accept"
    /\ listenQ # <<>>
    /\ LET p == Head(listenQ)
       IN  /\ listenQ' = Tail(listenQ)
           /\ connSt' = [connSt EXCEPT ![p] = "accepted"]
           /\ socket_to_client' = p
    /\ srvPc' = "negotiate"
    /\ bufFromClient' = <<>>
    /\ nBytesSoFar' = 0
    /\ freeBytes' = BufSize - 1
    /\ secsToSend' = 0
    /\ bytesPerBuf' = 0
    /\ msgFromClient' = <<>>
    /\ readEnd' = "none"
    /\ UNCHANGED <<pbuf, c2s, peerShut, s2c, nbytes, srvClock, srvTimeStart,
                   secsSinceStart, totBytesSent, nSends, sa, cliVars, raVars>>

\* accept() fails: perror, and the loop of doServer comes round to accept
\* again; nothing of the state changes.
SrvAcceptFail ==
    /\ srvPc = "accept"
    /\ srvPc' = "accept"
    /\ UNCHANGED <<readEnd, netVars, socket_to_client, bufFromClient,
                   nBytesSoFar, freeBytes, nbytes, secsToSend, bytesPerBuf, pbuf,
                   msgFromClient, srvClock, srvTimeStart, secsSinceStart,
                   totBytesSent, nSends, sa, cliVars, raVars>>

\* How the read loop of handleServerConnection goes on after a recv that
\* returned n > 0 bytes: out on a newline, out on a full buffer, else round.
AfterFrameRecv(b, soFar) ==
    IF HasChar(CStr(b), "\n") THEN "newline"
    ELSE IF soFar < BufSize - 1 THEN "none"
    ELSE "full"

\* recv() of the control frame returns n > 0 bytes: what has arrived, as
\* far as it fits.
SrvRecvData ==
    /\ srvPc = "negotiate"
    /\ LET p == socket_to_client
       IN  /\ c2s[p] # <<>>
           /\ \E n \in {Min(Len(c2s[p]), freeBytes)} :
                /\ nbytes' = n
                /\ nBytesSoFar' = nBytesSoFar + n
                /\ freeBytes' = freeBytes - n
                /\ bufFromClient' = bufFromClient \o SubSeq(c2s[p], 1, n)
                /\ c2s' = [c2s EXCEPT ![p] = SubSeq(@, n + 1, Len(@))]
                /\ readEnd' = AfterFrameRecv(bufFromClient', nBytesSoFar')
                /\ srvPc' = IF readEnd' = "none" THEN "negotiate" ELSE "decode"
    /\ UNCHANGED <<listenQ, connSt, peerShut, s2c, socket_to_client,
                   secsToSend, bytesPerBuf, pbuf, msgFromClient, srvClock,
                   srvTimeStart, secsSinceStart, totBytesSent, nSends, sa,
                   cliVars, raVars>>

\* Where the read loop goes after a recv that returned 0 or an error: both
\* break out of the loop, and the parse follows.
AfterFrameRecvEnd == "decode"

\* recv() of the control frame returns 0: the peer closed, nothing is left.
SrvRecvClosed ==
    /\ srvPc = "negotiate"
    /\ c2s[socket_to_client] = <<>>
    /\ peerShut[socket_to_client]
    /\ nbytes' = 0
    /\ readEnd' = "closed"
    /\ srvPc' = AfterFrameRecvEnd
    /\ UNCHANGED <<netVars, socket_to_client, bufFromClient, nBytesSoFar,
                   freeBytes, secsToSend, bytesPerBuf, pbuf, msgFromClient,
                   srvClock, srvTimeStart, secsSinceStart, totBytesSent,
                   nSends, sa, cliVars, raVars>>

\* recv() of the control frame fails: the connection was reset by a peer
\* that is gone.
SrvRecvError ==
    /\ srvPc = "negotiate"
    /\ peerShut[socket_to_client]
    /\ nbytes' = 0 - 1
    /\ readEnd' = "error"
    /\ srvPc' = AfterFrameRecvEnd
    /\ UNCHANGED <<netVars, socket_to_client, bufFromClient, nBytesSoFar,
                   freeBytes, secsToSend, bytesPerBuf, pbuf, msgFromClient,
                   srvClock, srvTimeStart, secsSinceStart, totBytesSent,
                   nSends, sa, cliVars, raVars>>

\* What the parse can give when no byte was stored: bufFromClient is then
\* an uninitialised array and strtok reads whatever the stack holds.
UninitDecodes ==
    [secsToSend : SecsSet, bytesPerBuf : BytesSet, msgFromClient : {<<>>}]

\* The strtok/atoi parse and the log line.  Nothing reads the frame buffer,
\* its counters or the connection's input after the parse: the model drops
\* them here (readEnd keeps how the read loop ended).
SrvDecode ==
    /\ srvPc = "decode"
    /\ \E d \in (IF nBytesSoFar = 0 THEN UninitDecodes
                 ELSE {Decode(CStr(bufFromClient))}) :
         /\ secsToSend' = d.secsToSend
         /\ bytesPerBuf' = d.bytesPerBuf
         /\ msgFromClient' = d.msgFromClient
    /\ bufFromClient' = <<>>
    /\ nBytesSoFar' = 0
    /\ freeBytes' = BufSize - 1
    /\ nbytes' = 0
    /\ c2s' = [c2s EXCEPT ![socket_to_client] = <<>>]
    /\ srvPc' = "generate"
    /\ UNCHANGED <<pbuf, listenQ, connSt, peerShut, s2c, socket_to_client, srvClock,
                   srvTimeStart, secsSinceStart, totBytesSent, nSends,
                   readEnd, sa, cliVars, raVars>>

\* new unsigned char[n]: a negative n makes the new-expression throw
\* (std::bad_array_new_length); nothing in the program catches it.
NewArrayThrows(n) == n < 0

\* The connections after the server process has ended: the kernel closes
\* every socket of the process, the listening one included.
AfterProcessEnd(st) ==
    [p \in Peers |-> IF st[p] \in {"pending", "accepted"} THEN "closed"
                     ELSE st[p]]

\* The payload buffer is allocated; the uncaught exception of a negative
\* size ends the server process.
SrvGenerateThrows ==
    /\ srvPc = "generate"
    /\ NewArrayThrows(bytesPerBuf)
    /\ srvPc' = "terminated"
    /\ connSt' = AfterProcessEnd(connSt)
    /\ listenQ' = <<>>
    /\ socket_to_client' = NoSock
    /\ UNCHANGED <<readEnd, c2s, peerShut, s2c, bufFromClient, nBytesSoFar, freeBytes,
                   nbytes, secsToSend, bytesPerBuf, pbuf, msgFromClient, srvClock,
                   srvTimeStart, secsSinceStart, totBytesSent, nSends, sa,
                   cliVars, raVars>>

\* isprint() of the C locale, on byte values.
IsPrint(c) == c \in 32..126

\* One turn of the fill loop's byte: mybyte++ on an unsigned char, then the
\* reset to 'A' (65) when the result is not printable.
NextByte(mybyte) ==
    LET inc == (mybyte + 1) % 256
    IN  IF IsPrint(inc) THEN inc ELSE 65

\* n passes of the fill loop that start with mybyte = first: the bytes they
\* store.  The passes are taken as a first half and a second half, which
\* starts with the byte the turn after the first half's last byte leaves.
RECURSIVE FillFrom(_, _)
FillFrom(first, n) ==
    IF n <= 0 THEN <<>>
    ELSE IF n = 1 THEN <<first>>
    ELSE LET h == n \div 2
             left == FillFrom(first, h)
         IN  left \o FillFrom(NextByte(left[h]), n - h)

\* The buffer after the fill loop has run over n bytes from mybyte = 'A'.
Fill(n) == FillFrom(65, n)

\* The payload buffer is allocated and filled, the start time is taken (the
\* session's clock is counted from this first reading) and the first
\* sendAll is entered.
SrvGenerate ==
    /\ srvPc = "generate"
    /\ ~NewArrayThrows(bytesPerBuf)
    /\ srvClock' = 0
    /\ srvTimeStart' = srvClock'
    /\ totBytesSent' = 0
    /\ nSends' = 0
    /\ sa' = [sa EXCEPT !["server"] = SendAllEntry(bytesPerBuf)]
    /\ pbuf' = Fill(bytesPerBuf)
    /\ srvPc' = "send"
    /\ UNCHANGED <<readEnd, netVars, socket_to_client, bufFromClient, nBytesSoFar,
                   freeBytes, nbytes, secsToSend, bytesPerBuf, msgFromClient,
                   secsSinceStart, cliVars, raVars>>

\* Where the server is after a pass of sendAll's loop.
SrvAfterSendStep(f) == IF SendAllLeaves(f) THEN "sendRet" ELSE "send"

\* One send call of the server's sendAll.  It fails on a connection whose
\* peer is gone (EPIPE, ECONNRESET).
SrvSend ==
    /\ srvPc = "send"
    /\ LET p == socket_to_client
           f == sa["server"]
       IN  \E r \in SendReturns(nBytesToSend(f), SockBufCap - s2c[p],
                                 peerShut[p]) :
             /\ sa' = [sa EXCEPT !["server"] = SendAllStep(f, r)]
             /\ s2c' = [s2c EXCEPT ![p] = IF r > 0 THEN @ + r ELSE @]
             /\ srvPc' = SrvAfterSendStep(sa'["server"])
    /\ UNCHANGED <<readEnd, listenQ, connSt, c2s, peerShut, socket_to_client,
                   bufFromClient, nBytesSoFar, freeBytes, nbytes, secsToSend,
                   bytesPerBuf, pbuf, msgFromClient, srvClock, srvTimeStart,
                   secsSinceStart, totBytesSent, nSends, cliVars, raVars>>

\* The clock readings the model follows after the server's n-th sendAll:
\* at most MaxSendsPerSec sendAll calls complete per second of the clock.
SrvClockReads(now, start, n) ==
    {t \in ClockReads(now) : n <= MaxSendsPerSec * (t - start + 1)}

\* The streaming loop goes round again.
StreamOn(elapsed, secs) == elapsed < secs

\* sendAll has returned to the streaming loop of handleServerConnection
\* (its locals are gone with the return; bOK is the value returned).
SrvSendRet ==
    /\ srvPc = "sendRet"
    /\ IF ~sa["server"].bOK
       THEN /\ srvPc' = "close"
            /\ sa' = [sa EXCEPT !["server"] = SendAllEntry(0)]
            /\ UNCHANGED <<totBytesSent, nSends, srvClock, secsSinceStart>>
       ELSE /\ totBytesSent' = totBytesSent + bytesPerBuf
            /\ nSends' = nSends + 1
            /\ \E timeNow \in SrvClockReads(srvClock, srvTimeStart, nSends') :
                 /\ srvClock' = timeNow
                 /\ secsSinceStart' = timeNow - srvTimeStart
            /\ IF StreamOn(secsSinceStart', secsToSend)
               THEN /\ srvPc' = "send"
                    /\ sa' = [sa EXCEPT !["server"] = SendAllEntry(bytesPerBuf)]
               ELSE /\ srvPc' = "close"
                    /\ sa' = [sa EXCEPT !["server"] = SendAllEntry(0)]
    /\ UNCHANGED <<readEnd, netVars, socket_to_client, bufFromClient,
                   nBytesSoFar, freeBytes, nbytes, secsToSend, bytesPerBuf, pbuf,
                   msgFromClient, srvTimeStart, cliVars, raVars>>

\* The state of the session's connection after close(socket_to_client).
SrvClosed(st, p) == [st EXCEPT ![p] = "closed"]

\* close(socket_to_client), the final log line, the return to doServer and
\* the next round of its loop.
SrvClose ==
    /\ srvPc = "close"
    /\ connSt' = SrvClosed(connSt, socket_to_client)
    /\ socket_to_client' = NoSock
    /\ pbuf' = <<>>
    /\ srvPc' = "accept"
    /\ UNCHANGED <<readEnd, listenQ, c2s, peerShut, s2c, bufFromClient, nBytesSoFar,
                   freeBytes, nbytes, secsToSend, bytesPerBuf, msgFromClient,
                   srvClock, srvTimeStart, secsSinceStart, totBytesSent,
                   nSends, sa, cliVars, raVars>>

SrvNext ==
    \/ SrvAccept \/ SrvAcceptFail
    \/ SrvRecvData \/ SrvRecvClosed \/ SrvRecvError
    \/ SrvDecode \/ SrvGenerateThrows \/ SrvGenerate
    \/ SrvSend \/ SrvSendRet \/ SrvClose


\* ------------------------------------------------------------ the client
\* errno values connect() leaves (ETIMEDOUT, ECONNREFUSED).
ErrnoSet == {60, 61}

\* connect() succeeds (doClient): the kernel of the server completes the
\* connection and queues it, whatever the server process is doing.
CliConnect ==
    /\ cliPc = "start"
    /\ srvPc # "terminated"
    /\ listenQ' = Append(listenQ, "cli")
    /\ connSt' = [connSt EXCEPT !["cli"] = "pending"]
    /\ cliPc' = "encode"
    /\ UNCHANGED <<c2s, peerShut, s2c, srvVars, sa, settings, argv, buf, retval,
                   nBytesRec, totBytesRec, bytesRecSinceLastUIUpdate,
                   cliClock, cliTimeStart, timeLastUIUpdate, nCallsToTimer,
                   nInterim, nFinal, raVars>>

\* connect() fails: doClient returns errno.
CliConnectFail ==
    /\ cliPc = "start"
    /\ \E e \in ErrnoSet : retval' = e
    /\ cliPc' = "exit"
    /\ UNCHANGED <<netVars, srvVars, sa, settings, argv, buf, nBytesRec,
                   totBytesRec, bytesRecSinceLastUIUpdate, cliClock,
                   cliTimeStart, timeLastUIUpdate, nCallsToTimer, nInterim,
                   nFinal, raVars>>

\* snprintf of the control frame, and the entry of sendAll(buf, nbytes).
CliEncode ==
    /\ cliPc = "encode"
    /\ LET e == Encode(settings.secs, settings.bytes_per_buf, settings.msg)
       IN  /\ buf' = e.buf
           /\ sa' = [sa EXCEPT !["client"] = SendAllEntry(e.nbytes)]
    /\ cliPc' = "send"
    /\ UNCHANGED <<netVars, srvVars, settings, argv, retval, nBytesRec,
                   totBytesRec, bytesRecSinceLastUIUpdate, cliClock,
                   cliTimeStart, timeLastUIUpdate, nCallsToTimer, nInterim,
                   nFinal, raVars>>

\* Where the client is after a pass of sendAll's loop.
CliAfterSendStep(f) == IF SendAllLeaves(f) THEN "sendRet" ELSE "send"

\* One send call of the client's sendAll.
CliSend ==
    /\ cliPc = "send"
    /\ LET f == sa["client"]
       IN  \E r \in SendReturns(nBytesToSend(f),
                                 FrameSockCap - Len(c2s["cli"]), TRUE) :
             /\ sa' = [sa EXCEPT !["client"] = SendAllStep(f, r)]
             /\ c2s' = [c2s EXCEPT !["cli"] =
                          IF r > 0 THEN @ \o BufSlice(buf, f.offset, r) ELSE @]
             /\ cliPc' = CliAfterSendStep(sa'["client"])
    /\ UNCHANGED <<listenQ, connSt, peerShut, s2c, srvVars, settings, argv, buf,
                   retval, nBytesRec, totBytesRec, bytesRecSinceLastUIUpdate,
                   cliClock, cliTimeStart, timeLastUIUpdate, nCallsToTimer,
                   nInterim, nFinal, raVars>>

\* sendAll of the frame returned false: retval = 3, the client returns and its
\* process ends, which closes its socket.
CliSendFailed ==
    /\ cliPc = "sendRet"
    /\ ~sa["client"].bOK
    /\ retval' = 3
    /\ cliPc' = "exit"
    /\ sa' = [sa EXCEPT !["client"] = SendAllEntry(0)]
    /\ peerShut' = [peerShut EXCEPT !["cli"] = TRUE]
    /\ UNCHANGED <<listenQ, connSt, c2s, s2c, srvVars, settings, argv, buf,
                   nBytesRec, totBytesRec, bytesRecSinceLastUIUpdate,
                   cliClock, cliTimeStart, timeLastUIUpdate, nCallsToTimer,
                   nInterim, nFinal, raVars>>

\* Command sent: the receive buffer is allocated, but a negative
\* bytes_per_buf makes new[] throw and the client process ends.
CliAllocThrows ==
    /\ cliPc = "sendRet"
    /\ sa["client"].bOK
    /\ NewArrayThrows(settings.bytes_per_buf)
    /\ cliPc' = "terminated"
    /\ sa' = [sa EXCEPT !["client"] = SendAllEntry(0)]
    /\ peerShut' = [peerShut EXCEPT !["cli"] = TRUE]
    /\ UNCHANGED <<listenQ, connSt, c2s, s2c, srvVars, settings, argv, buf,
                   retval, nBytesRec, totBytesRec, bytesRecSinceLastUIUpdate,
                   cliClock, cliTimeStart, timeLastUIUpdate, nCallsToTimer,
                   nInterim, nFinal, raVars>>

\* Command sent: the receive buffer is allocated, the counters and times of
\* the receive loop are initialised (the session's clock is counted from
\* this first reading) and the loop is entered.
CliAlloc ==
    /\ cliPc = "sendRet"
    /\ sa["client"].bOK
    /\ ~NewArrayThrows(settings.bytes_per_buf)
    /\ nBytesRec' = 0
    /\ totBytesRec' = 0
    /\ bytesRecSinceLastUIUpdate' = 0
    /\ cliClock' = 0
    /\ cliTimeStart' = cliClock'
    /\ timeLastUIUpdate' = cliTimeStart'
    /\ nCallsToTimer' = 0
    /\ sa' = [sa EXCEPT !["client"] = SendAllEntry(0)]
    /\ cliPc' = "loop"
    /\ UNCHANGED <<netVars, srvVars, settings, argv, buf, retval, nInterim,
                   nFinal, raVars>>

\* ------------------------------------------- the client's receive loop
\* nBytesRec is a size_t: the model keeps the signed number congruent to it
\* (-1 for the largest size_t), so that sums agree with the machine's
\* modulo 2^64.  As an unsigned number it is never below 0, and it is above
\* 0 unless it is 0.
SizeGE0(n) == TRUE
SizeGT0(n) == n # 0

\* The test that guards the accounting branch of the receive loop.
RecvOK(n, eof) == SizeGE0(n) \/ eof

\* The receive loop goes round again after a pass that did its accounting.
LoopOn(eof) == ~eof

\* One pass of the body of the receive loop, from the return of recvAll
\* with value ret and bEOF = eof (cause and got are the history of that
\* call: why it returned, how many bytes its recv calls delivered).
\* Leaving the loop ends handleClientConnection, doClient and the process,
\* which closes the socket.  A pass that goes round again after a timeout
\* or a failed call is followed within the first MaxTimerCalls calls.
CliLoopBody(ret, eof, cause, got) ==
    /\ bytesReadSoFar' = ret
    /\ bEOF' = eof
    /\ raCause' = cause
    /\ raGot' = got
    /\ nBytesRec' = ret
    /\ nCallsToTimer' = nCallsToTimer + 1
    /\ \E timeNow \in ClockReads(cliClock) :
         /\ cliClock' = timeNow
         /\ IF RecvOK(nBytesRec', eof)
            THEN /\ totBytesRec' = totBytesRec + nBytesRec'
                 /\ IF SizeGT0(nBytesRec') /\ timeNow - timeLastUIUpdate >= 1
                    THEN /\ timeLastUIUpdate' = timeNow
                         /\ nInterim' = nInterim + 1
                         /\ bytesRecSinceLastUIUpdate' = 0
                    ELSE /\ bytesRecSinceLastUIUpdate' =
                                bytesRecSinceLastUIUpdate + nBytesRec'
                         /\ UNCHANGED <<timeLastUIUpdate, nInterim>>
                 /\ IF LoopOn(eof)
                    THEN /\ cause = "full" \/ nCallsToTimer' < MaxTimerCalls
                         /\ cliPc' = "loop"
                         /\ UNCHANGED <<nFinal, peerShut>>
                    ELSE /\ nFinal' = nFinal + 1
                         /\ cliPc' = "exit"
                         /\ peerShut' = [peerShut EXCEPT !["cli"] = TRUE]
            ELSE /\ cliPc' = "exit"
                 /\ peerShut' = [peerShut EXCEPT !["cli"] = TRUE]
                 /\ UNCHANGED <<totBytesRec, bytesRecSinceLastUIUpdate,
                                timeLastUIUpdate, nInterim, nFinal>>
    /\ UNCHANGED <<listenQ, connSt, c2s, srvVars, sa, settings, argv, buf, retval,
                   cliTimeStart>>

\* ---------------------------------------------------------------- recvAll
\* The client is in recvAll(sock, pbuf, settings.bytes_per_buf, bEOF): at
\* "loop" the call is being made (bytesReadSoFar is 0 and bEOF false on
\* entry; the variables still show the previous call's return), at "select"
\* it is inside the call with some bytes read.
InRecvAll == cliPc \in {"loop", "select"}
SoFar == IF cliPc = "loop" THEN 0 ELSE bytesReadSoFar
GotSoFar == IF cliPc = "loop" THEN 0 ELSE raGot

\* The server's end of the connection of peer p is closed and every byte it
\* sent has been read: a recv on it returns 0.
AtEndOfStream(p) == s2c[p] = 0 /\ connSt[p] = "closed"

\* What recvAll returns after select() failed, after select() timed out and
\* after recv() failed.
RetOnSelectFail(soFar) == soFar
RetOnTimeout(soFar) == 0 - 1
RetOnRecvFail(soFar) == soFar

\* bEOF at the return after a recv() that returned 0, and at the other
\* returns (recvAll sets it false on entry).
EofOnRecvZero == TRUE
EofOtherwise == FALSE

\* select() fails: perror and break.
CliSelectFail ==
    /\ InRecvAll
    /\ CliLoopBody(RetOnSelectFail(SoFar), EofOtherwise, "select", GotSoFar)
    /\ UNCHANGED s2c

\* select() returns 0: nothing became readable within the 5 seconds.
CliSelectTimeout ==
    /\ InRecvAll
    /\ s2c["cli"] = 0
    /\ connSt["cli"] # "closed"
    /\ CliLoopBody(RetOnTimeout(SoFar), EofOtherwise, "timeout", GotSoFar)
    /\ UNCHANGED s2c

\* select() reports the socket readable and recv() fails (the connection
\* was reset by a server that is gone): perror and break.
CliRecvError ==
    /\ InRecvAll
    /\ connSt["cli"] = "closed"
    /\ CliLoopBody(RetOnRecvFail(SoFar), EofOtherwise, "recv", GotSoFar)
    /\ UNCHANGED s2c

\* select() reports the socket readable and recv() returns 0: at the end of
\* the stream, and also when it is asked for 0 bytes
\* (nbytes - bytesReadSoFar = 0).  The history records which.
CliRecvZero ==
    /\ InRecvAll
    /\ \/ AtEndOfStream("cli")
       \/ /\ settings.bytes_per_buf - SoFar = 0
          /\ s2c["cli"] > 0
    /\ CliLoopBody(SoFar, EofOnRecvZero,
                   IF AtEndOfStream("cli") THEN "closed" ELSE "zerolen",
                   GotSoFar)
    /\ UNCHANGED s2c

\* recvAll's loop goes round again.
RecvAllOn(soFar, max) == soFar < max

\* select() reports the socket readable and recv() returns r > 0 bytes:
\* recvAll goes round again, or returns with its buffer full.
CliRecvData ==
    /\ InRecvAll
    /\ s2c["cli"] > 0
    /\ \E r \in 1..Min(s2c["cli"], settings.bytes_per_buf - SoFar) :
         /\ s2c' = [s2c EXCEPT !["cli"] = @ - r]
         /\ IF RecvAllOn(SoFar + r, settings.bytes_per_buf)
            THEN /\ bytesReadSoFar' = SoFar + r
                 /\ raGot' = GotSoFar + r
                 /\ bEOF' = EofOtherwise
                 /\ raCause' = "none"
                 /\ cliPc' = "select"
                 /\ UNCHANGED <<listenQ, connSt, c2s, peerShut, srvVars, sa,
                                settings, argv, buf, retval, nBytesRec, totBytesRec,
                                bytesRecSinceLastUIUpdate, cliClock,
                                cliTimeStart, timeLastUIUpdate, nCallsToTimer,
                                nInterim, nFinal>>
            ELSE CliLoopBody(SoFar + r, EofOtherwise, "full", GotSoFar + r)

CliNext ==
    \/ CliConnect \/ CliConnectFail \/ CliEncode \/ CliSend
    \/ CliSendFailed \/ CliAllocThrows \/ CliAlloc
    \/ CliSelectFail \/ CliSelectTimeout
    \/ CliRecvError \/ CliRecvZero \/ CliRecvData

\* ------------------------------------------------------ the second peer
\* A second client's connect() succeeds while the first client's session
\* is live.
OtherConnect ==
    /\ connSt["other"] = "none"
    /\ connSt["cli"] = "accepted"
    /\ srvPc # "terminated"
    /\ listenQ' = Append(listenQ, "other")
    /\ connSt' = [connSt EXCEPT !["other"] = "pending"]
    /\ UNCHANGED <<c2s, peerShut, s2c, srvVars, sa, cliVars, raVars>>

\* It closes its socket without having sent anything (the server cannot
\* tell a close before accept from one after it).
OtherClose ==
    /\ connSt["other"] \in {"accepted", "closed"}
    /\ ~peerShut["other"]
    /\ peerShut' = [peerShut EXCEPT !["other"] = TRUE]
    /\ UNCHANGED <<listenQ, connSt, c2s, s2c, srvVars, sa, cliVars, raVars>>

OtherNext == OtherConnect \/ OtherClose

Next == SrvNext \/ CliNext \/ OtherNext

Spec == Init /\ [][Next]_vars


\* ------------------------------------------------- the codec on its own
\* The control frame's encoding and parse, applied to requests and to cut
\* frames without the network in between: the client formats the frame of
\* its settings, the server's buffer receives it whole or cut short, and
\* the parse of handleServerConnection runs on it.
CodecSecs == {0, 5, 10}
CodecBytes == {0 - 1, 0, 7, 1024, 12288}
CodecMsgs == {<<>>, <<"x">>, <<"h", "e", "l", "l", "o">>, <<" ", "7">>}
CodecSettings == [mode : {"client"}, secs : CodecSecs,
                  bytes_per_buf : CodecBytes, msg : CodecMsgs]

\* A frame with its trailing tokens missing: the first k of the tokens
\* send, secs, bytes (each with its "|" when bar is set; the last one
\* without it otherwise), then the newline when nl is set.
Fields(st) == <<<<"s", "e", "n", "d">>, IntToChars(st.secs),
                IntToChars(st.bytes_per_buf)>>

RECURSIVE JoinFields(_, _)
JoinFields(fs, k) ==
    IF k = 0 THEN <<>>
    ELSE IF k = 1 THEN fs[1]
    ELSE JoinFields(fs, k - 1) \o <<"|">> \o fs[k]

CutFrame(st, k, bar, nl) ==
    JoinFields(Fields(st), k)
        \o (IF bar /\ k > 0 THEN <<"|">> ELSE <<>>)
        \o (IF nl THEN <<"\n">> ELSE <<>>)

CutShapes == {c \in [k : 0..3, bar : BOOLEAN, nl : BOOLEAN] :
                 c.k > 0 \/ c.nl}

InitCodec ==
    /\ listenQ = <<>>
    /\ connSt = [p \in Peers |-> IF p = "cli" THEN "accepted" ELSE "none"]
    /\ c2s = [p \in Peers |-> <<>>]
    /\ peerShut = [p \in Peers |-> FALSE]
    /\ s2c = [p \in Peers |-> 0]
    /\ srvPc = "negotiate"
    /\ socket_to_client = "cli"
    /\ bufFromClient = <<>>
    /\ nBytesSoFar = 0
    /\ freeBytes = BufSize - 1
    /\ nbytes = 0
    /\ secsToSend = 0
    /\ bytesPerBuf = 0
    /\ msgFromClient = <<>>
    /\ pbuf = <<>>
    /\ srvClock = 0
    /\ srvTimeStart = 0
    /\ secsSinceStart = 0
    /\ totBytesSent = 0
    /\ nSends = 0
    /\ readEnd = "none"
    /\ sa = [p \in Procs |-> SendAllEntry(0)]
    /\ cliPc = "encode"
    /\ argv = <<>>
    /\ settings \in CodecSettings
    /\ buf = <<>>
    /\ retval = 0
    /\ nBytesRec = 0
    /\ totBytesRec = 0
    /\ bytesRecSinceLastUIUpdate = 0
    /\ cliClock = 0
    /\ cliTimeStart = 0
    /\ timeLastUIUpdate = 0
    /\ nCallsToTimer = 0
    /\ nInterim = 0
    /\ nFinal = 0
    /\ bEOF = FALSE
    /\ bytesReadSoFar = 0
    /\ raCause = "none"
    /\ raGot = 0

codecVars == <<cliPc, buf, srvPc, bufFromClient, nBytesSoFar, freeBytes,
               nbytes, readEnd, secsToSend, bytesPerBuf, msgFromClient>>
codecFixed == <<netVars, socket_to_client, srvClock, srvTimeStart,
                secsSinceStart, totBytesSent, nSends, sa, settings, argv, retval,
                nBytesRec, totBytesRec, bytesRecSinceLastUIUpdate, cliClock,
                cliTimeStart, timeLastUIUpdate, nCallsToTimer, nInterim,
                nFinal, raVars>>

\* The client's snprintf.
CodecEncode ==
    /\ cliPc = "encode"
    /\ buf' = Encode(settings.secs, settings.bytes_per_buf, settings.msg).buf
    /\ cliPc' = "send"
    /\ UNCHANGED <<pbuf, srvPc, bufFromClient, nBytesSoFar, freeBytes, nbytes,
                   readEnd, secsToSend, bytesPerBuf, msgFromClient,
                   codecFixed>>

\* The server's read loop ends with the bytes b in its buffer.
CodecStore(b) ==
    /\ srvPc = "negotiate"
    /\ Len(b) <= BufSize - 1
    /\ bufFromClient' = b
    /\ nBytesSoFar' = Len(b)
    /\ freeBytes' = BufSize - 1 - Len(b)
    /\ nbytes' = Len(b)
    /\ readEnd' = IF HasChar(CStr(b), "\n") THEN "newline" ELSE "closed"
    /\ srvPc' = "decode"
    /\ UNCHANGED <<pbuf, cliPc, buf, secsToSend, bytesPerBuf, msgFromClient,
                   codecFixed>>

\* The frame the client formatted arrives whole.
CodecRecvWhole ==
    /\ cliPc = "send"
    /\ CodecStore(buf)

\* A frame with trailing tokens missing arrives instead.
CodecRecvCut ==
    /\ cliPc = "send"
    /\ \E c \in CutShapes : CodecStore(CutFrame(settings, c.k, c.bar, c.nl))

\* The parse of handleServerConnection on the buffer.
CodecDecode ==
    /\ srvPc = "decode"
    /\ LET d == Decode(CStr(bufFromClient))
       IN  /\ secsToSend' = d.secsToSend
           /\ bytesPerBuf' = d.bytesPerBuf
           /\ msgFromClient' = d.msgFromClient
    /\ srvPc' = "generate"
    /\ UNCHANGED <<pbuf, cliPc, buf, bufFromClient, nBytesSoFar, freeBytes, nbytes,
                   readEnd, codecFixed>>

NextCodec == CodecEncode \/ CodecRecvWhole \/ CodecRecvCut \/ CodecDecode

SpecCodec == InitCodec /\ [][NextCodec]_vars


\* ------------------------------------------------ main and the command line
\* The process from doMain on: parseCmdLine over argv, then usage() or the
\* dispatch to doServer or doClient, and doClient's return value as the
\* exit code.
DEFAULT_SECS == 10
DEFAULT_BYTES_PER_BUF == 12288

\* Settings as its constructor leaves it (the fields the model follows).
DefaultSettings ==
    [mode |-> "unknown", secs |-> DEFAULT_SECS,
     bytes_per_buf |-> DEFAULT_BYTES_PER_BUF, msg |-> <<>>]

\* The option names parseCmdLine knows.
NameMode == <<"m", "o", "d", "e">>
NameRemoteip == <<"r", "e", "m", "o", "t", "e", "i", "p">>
NameSecs == <<"s", "e", "c", "s">>
NameNbytes == <<"n", "b", "y", "t", "e", "s">>
NamePort == <<"p", "o", "r", "t">>
NameMsg == <<"m", "s", "g">>
ValServer == <<"s", "e", "r", "v", "e", "r">>
ValClient == <<"c", "l", "i", "e", "n", "t">>

\* strchr(s, c): the index of the first c in s, 0 when there is none.
RECURSIVE StrChr(_, _, _)
StrChr(s, c, i) ==
    IF i > Len(s) THEN 0
    ELSE IF s[i] = c THEN i
    ELSE StrChr(s, c, i + 1)

\* parseArg: "-name:val", "-name" or "val"; a bare "-" is refused.
parseArg(arg) ==
    IF arg # <<>> /\ Head(arg) = "-"
    THEN LET pch == Tail(arg)
             pcolon == StrChr(pch, ":", 1)
         IN  IF pch = <<>>
             THEN [bOK |-> FALSE, name |-> <<>>, val |-> <<>>]
             ELSE IF pcolon # 0
             THEN [bOK |-> TRUE, name |-> SubSeq(pch, 1, pcolon - 1),
                   val |-> SubSeq(pch, pcolon + 1, Len(pch))]
             ELSE [bOK |-> TRUE, name |-> pch, val |-> <<>>]
    ELSE [bOK |-> TRUE, name |-> <<>>, val |-> arg]

\* One pass of parseCmdLine's loop over st = [bOK, settings].  remoteip,
\* port and the log file name are stored in fields the model does not
\* follow.
ParseOne(st, arg) ==
    LET a == parseArg(arg)
    IN  IF ~a.bOK THEN [st EXCEPT !.bOK = FALSE]
        ELSE IF a.name = NameMode
        THEN IF a.val = ValServer
             THEN [st EXCEPT !.settings.mode = "server"]
             ELSE IF a.val = ValClient
             THEN [st EXCEPT !.settings.mode = "client"]
             ELSE [st EXCEPT !.bOK = FALSE]
        ELSE IF a.name = NameRemoteip THEN st
        ELSE IF a.name = NameSecs
        THEN [st EXCEPT !.settings.secs = atoi(a.val)]
        ELSE IF a.name = NameNbytes
        THEN [st EXCEPT !.settings.bytes_per_buf = atoi(a.val)]
        ELSE IF a.name = NamePort THEN st
        ELSE IF a.name = NameMsg
        THEN [st EXCEPT !.settings.msg = a.val]
        ELSE [st EXCEPT !.bOK = FALSE]

\* parseCmdLine's loop over argv[1..j].
RECURSIVE ParseLoop(_, _, _)
ParseLoop(args, j, st) ==
    IF j = 0 THEN st
    ELSE ParseOne(ParseLoop(args, j - 1, st), args[j])

\* parseCmdLine: the loop, then the test that a mode was given.
parseCmdLine(args, s0) ==
    LET st == ParseLoop(args, Len(args), [bOK |-> TRUE, settings |-> s0])
    IN  IF st.settings.mode = "unknown" THEN [st EXCEPT !.bOK = FALSE]
        ELSE st

\* Arguments a command line is made of, and the command lines followed.
ArgModeServer == <<"-", "m", "o", "d", "e", ":", "s", "e", "r", "v", "e", "r">>
ArgModeClient == <<"-", "m", "o", "d", "e", ":", "c", "l", "i", "e", "n", "t">>
ArgModeOther == <<"-", "m", "o", "d", "e", ":", "x">>
ArgDash == <<"-">>
ArgUnknown == <<"-", "s", "l", "o", "w">>
ArgPlain == <<"m", "y", "h", "o", "s", "t">>
ArgRemoteip == <<"-", "r", "e", "m", "o", "t", "e", "i", "p", ":", "h">>
ArgSecs == <<"-", "s", "e", "c", "s", ":", "1">>
ArgNbytes == <<"-", "n", "b", "y", "t", "e", "s", ":", "2">>
ArgNbytesNeg == <<"-", "n", "b", "y", "t", "e", "s", ":", "-", "1">>
ArgMsg == <<"-", "m", "s", "g", ":", "x">>
ArgPool ==
    {ArgModeServer, ArgModeClient, ArgModeOther, ArgDash, ArgUnknown,
     ArgPlain, ArgRemoteip, ArgSecs, ArgNbytes, ArgNbytesNeg, ArgMsg}
MaxArgs == 2
ArgvSet == UNION {[1..n -> ArgPool] : n \in 0..MaxArgs}

InitMain ==
    /\ listenQ = <<>>
    /\ connSt = [p \in Peers |-> "none"]
    /\ c2s = [p \in Peers |-> <<>>]
    /\ peerShut = [p \in Peers |-> FALSE]
    /\ s2c = [p \in Peers |-> 0]
    /\ srvPc = "accept"
    /\ socket_to_client = NoSock
    /\ bufFromClient = <<>>
    /\ nBytesSoFar = 0
    /\ freeBytes = BufSize - 1
    /\ nbytes = 0
    /\ secsToSend = 0
    /\ bytesPerBuf = 0
    /\ msgFromClient = <<>>
    /\ pbuf = <<>>
    /\ srvClock = 0
    /\ srvTimeStart = 0
    /\ secsSinceStart = 0
    /\ totBytesSent = 0
    /\ nSends = 0
    /\ readEnd = "none"
    /\ sa = [p \in Procs |-> SendAllEntry(0)]
    /\ argv \in ArgvSet
    /\ cliPc = "main"
    /\ settings = DefaultSettings
    /\ buf = <<>>
    /\ retval = 0
    /\ nBytesRec = 0
    /\ totBytesRec = 0
    /\ bytesRecSinceLastUIUpdate = 0
    /\ cliClock = 0
    /\ cliTimeStart = 0
    /\ timeLastUIUpdate = 0
    /\ nCallsToTimer = 0
    /\ nInterim = 0
    /\ nFinal = 0
    /\ bEOF = FALSE
    /\ bytesReadSoFar = 0
    /\ raCause = "none"
    /\ raGot = 0

mainFixed == <<netVars, srvVars, sa, argv, buf, nBytesRec, totBytesRec,
               bytesRecSinceLastUIUpdate, cliClock, cliTimeStart,
               timeLastUIUpdate, nCallsToTimer, nInterim, nFinal, raVars>>

\* doMain: parseCmdLine refuses the command line; usage() is printed and
\* retval is returned as it was initialised.
MainUsage ==
    /\ cliPc = "main"
    /\ LET r == parseCmdLine(argv, settings)
       IN  /\ ~r.bOK
           /\ settings' = r.settings
    /\ cliPc' = "exit"
    /\ UNCHANGED <<retval, mainFixed>>

\* doMain: the command line is accepted in server mode; doServer's accept
\* loop never returns.
MainServer ==
    /\ cliPc = "main"
    /\ LET r == parseCmdLine(argv, settings)
       IN  /\ r.bOK
           /\ r.settings.mode = "server"
           /\ settings' = r.settings
    /\ cliPc' = "doServer"
    /\ UNCHANGED <<retval, mainFixed>>

\* doMain: the command line is accepted in client mode; doClient is called.
MainClient ==
    /\ cliPc = "main"
    /\ LET r == parseCmdLine(argv, settings)
       IN  /\ r.bOK
           /\ r.settings.mode # "server"
           /\ settings' = r.settings
    /\ cliPc' = "start"
    /\ UNCHANGED <<retval, mainFixed>>

\* doClient: connect() fails and errno is returned.
MainConnectFail ==
    /\ cliPc = "start"
    /\ \E e \in ErrnoSet : retval' = e
    /\ cliPc' = "exit"
    /\ UNCHANGED <<settings, mainFixed>>

\* doClient: connected; handleClientConnection sends the control frame.
MainConnect ==
    /\ cliPc = "start"
    /\ cliPc' = "encode"
    /\ UNCHANGED <<settings, retval, mainFixed>>

\* handleClientConnection: sendAll of the control frame fails.
MainSendFailed ==
    /\ cliPc = "encode"
    /\ retval' = 3
    /\ cliPc' = "exit"
    /\ UNCHANGED <<settings, mainFixed>>

\* handleClientConnection: the frame is sent and the buffer allocated.
MainAlloc ==
    /\ cliPc = "encode"
    /\ cliPc' = IF NewArrayThrows(settings.bytes_per_buf) THEN "terminated"
                ELSE "loop"
    /\ UNCHANGED <<settings, retval, mainFixed>>

\* handleClientConnection: the receive loop ends and retval is returned,
\* through doClient and doMain, as it was initialised.
MainSessionEnds ==
    /\ cliPc = "loop"
    /\ cliPc' = "exit"
    /\ UNCHANGED <<settings, retval, mainFixed>>

NextMain ==
    \/ MainUsage \/ MainServer \/ MainClient \/ MainConnectFail
    \/ MainConnect \/ MainSendFailed \/ MainAlloc \/ MainSessionEnds

SpecMain == InitMain /\ [][NextMain]_vars

\* ------------------------------------------------- the payload on its own
\* handleServerConnection from the allocation of the payload buffer on,
\* for every buffer size up to MaxPayload.
MaxPayload == 70

InitPayload ==
    /\ listenQ = <<>>
    /\ connSt = [p \in Peers |-> IF p = "cli" THEN "accepted" ELSE "none"]
    /\ c2s = [p \in Peers |-> <<>>]
    /\ peerShut = [p \in Peers |-> FALSE]
    /\ s2c = [p \in Peers |-> 0]
    /\ srvPc = "generate"
    /\ socket_to_client = "cli"
    /\ bufFromClient = <<>>
    /\ nBytesSoFar = 0
    /\ freeBytes = 0
    /\ nbytes = 0
    /\ secsToSend = 0
    /\ bytesPerBuf \in (0 - 1)..MaxPayload
    /\ msgFromClient = <<>>
    /\ pbuf = <<>>
    /\ srvClock = 0
    /\ srvTimeStart = 0
    /\ secsSinceStart = 0
    /\ totBytesSent = 0
    /\ nSends = 0
    /\ readEnd = "newline"
    /\ sa = [p \in Procs |-> SendAllEntry(0)]
    /\ argv = <<>>
    /\ cliPc = "loop"
    /\ settings = [mode |-> "client", secs |-> 0,
                   bytes_per_buf |-> bytesPerBuf, msg |-> <<>>]
    /\ buf = <<>>
    /\ retval = 0
    /\ nBytesRec = 0
    /\ totBytesRec = 0
    /\ bytesRecSinceLastUIUpdate = 0
    /\ cliClock = 0
    /\ cliTimeStart = 0
    /\ timeLastUIUpdate = 0
    /\ nCallsToTimer = 0
    /\ nInterim = 0
    /\ nFinal = 0
    /\ bEOF = FALSE
    /\ bytesReadSoFar = 0
    /\ raCause = "none"
    /\ raGot = 0

NextPayload == SrvGenerate \/ SrvGenerateThrows

SpecPayload == InitPayload /\ [][NextPayload]_vars

\* --------------------------------------------- the read loop on its own
\* handleServerConnection's read loop against a peer that sends any bytes:
\* single characters (a letter, a newline, a NUL byte) and long runs of a
\* filler letter, in any order and with any timing, and then closes.
MaxPeerChars == 3
FillerLen == 127
MaxPeerBytes == 300
Filler == [i \in 1..FillerLen |-> "y"]
PeerChunks == {<<"x">>, <<"\n">>, <<NUL>>, Filler}

\* The characters of s other than the filler letter.
NonFiller(s) == Cardinality({i \in 1..Len(s) : s[i] # "y"})

InitFrame ==
    /\ listenQ = <<>>
    /\ connSt = [p \in Peers |-> IF p = "other" THEN "accepted" ELSE "none"]
    /\ c2s = [p \in Peers |-> <<>>]
    /\ peerShut = [p \in Peers |-> FALSE]
    /\ s2c = [p \in Peers |-> 0]
    /\ srvPc = "negotiate"
    /\ socket_to_client = "other"
    /\ bufFromClient = <<>>
    /\ nBytesSoFar = 0
    /\ freeBytes = BufSize - 1
    /\ nbytes = 0
    /\ secsToSend = 0
    /\ bytesPerBuf = 0
    /\ msgFromClient = <<>>
    /\ pbuf = <<>>
    /\ srvClock = 0
    /\ srvTimeStart = 0
    /\ secsSinceStart = 0
    /\ totBytesSent = 0
    /\ nSends = 0
    /\ readEnd = "none"
    /\ sa = [p \in Procs |-> SendAllEntry(0)]
    /\ argv = <<>>
    /\ cliPc = "exit"
    /\ settings \in {s \in SettingsSet : s.secs = 0 /\ s.bytes_per_buf = 0}
    /\ buf = <<>>
    /\ retval = 0
    /\ nBytesRec = 0
    /\ totBytesRec = 0
    /\ bytesRecSinceLastUIUpdate = 0
    /\ cliClock = 0
    /\ cliTimeStart = 0
    /\ timeLastUIUpdate = 0
    /\ nCallsToTimer = 0
    /\ nInterim = 0
    /\ nFinal = 0
    /\ bEOF = FALSE
    /\ bytesReadSoFar = 0
    /\ raCause = "none"
    /\ raGot = 0

\* The peer of the session sends a chunk of bytes.
PeerSend ==
    /\ connSt[socket_to_client] = "accepted"
    /\ ~peerShut[socket_to_client]
    /\ srvPc = "negotiate"
    /\ \E chunk \in PeerChunks :
         LET sent == bufFromClient \o c2s[socket_to_client] \o chunk
         IN  /\ NonFiller(sent) <= MaxPeerChars
             /\ Len(sent) <= MaxPeerBytes
             /\ c2s' = [c2s EXCEPT ![socket_to_client] = @ \o chunk]
    /\ UNCHANGED <<listenQ, connSt, peerShut, s2c, srvVars, sa, cliVars,
                   raVars>>

NextFrame ==
    \/ PeerSend \/ OtherClose
    \/ SrvRecvData \/ SrvRecvClosed \/ SrvRecvError

SpecFrame == InitFrame /\ [][NextFrame]_vars

\* ------------------------------------------------------------ properties
PcOf(proc) == IF proc = "server" THEN srvPc ELSE cliPc

\* A call of recvAll has returned, and nothing has run since but the loop
\* body of handleClientConnection that received its results.
RecvAllReturned == raCause # "none" /\ cliPc \in {"loop", "exit"}

maxBytes == settings.bytes_per_buf

\* C1: when recvAll reports a receive error other than a clean end of
\* stream (a timeout, a failed select, a failed recv), the client leaves
\* its receive loop at once: it does not call recvAll again and it prints
\* no final report.
C1_ErrorLeavesLoop ==
    raCause \in {"timeout", "select", "recv"} =>
        /\ cliPc = "exit"
        /\ nFinal = 0

\* C2: when the peer closes the connection before the control frame's
\* newline has arrived, the server issues no sendAll on that connection.
C2_EarlyCloseAborts ==
    readEnd = "closed" => srvPc \notin {"send", "sendRet"}

\* C3: at most one accepted connection is open at any time, it is the one
\* the server's session runs on, and the server is at accept only when no
\* accepted connection is open.
C3_OneSessionAtATime ==
    /\ Cardinality({p \in Peers : connSt[p] = "accepted"}) <= 1
    /\ \A p \in Peers : connSt[p] = "accepted" =>
          /\ socket_to_client = p
          /\ srvPc # "accept"

\* C3 witness: a session is running on the first client's connection
\* while a second client has connected and waits unaccepted.
C3_Witness ==
    /\ connSt["cli"] = "accepted"
    /\ connSt["other"] = "pending"
    /\ srvPc = "send"

\* C4: sendAll returns true only when the byte counts its send calls
\* returned add up to at least the requested length, and once a send has
\* failed it returns false without sending again.
C4_SendAllTotalOrError ==
    \A proc \in Procs :
        /\ (PcOf(proc) = "sendRet" /\ sa[proc].bOK) =>
               sa[proc].totSent >= sa[proc].nbytes
        /\ ~sa[proc].bOK => PcOf(proc) = "sendRet"

\* C4 witness: the server's sendAll returns true after a partial send
\* made it call send more than once.
C4_Witness ==
    /\ srvPc = "sendRet"
    /\ sa["server"].bOK
    /\ sa["server"].nbytes > 0
    /\ sa["server"].totSent > sa["server"].nbytes

\* C5: for a positive maxBytes, recvAll returns in one of three ways only:
\* maxBytes with eof false, fewer than maxBytes with eof true, or -1 with
\* eof false.
C5_ThreeOutcomes ==
    (RecvAllReturned /\ maxBytes > 0) =>
        \/ bytesReadSoFar = maxBytes /\ ~bEOF
        \/ bytesReadSoFar >= 0 /\ bytesReadSoFar < maxBytes /\ bEOF
        \/ bytesReadSoFar = 0 - 1 /\ ~bEOF

\* C6, as stated: for every maxBytes >= 0, recvAll returns with eof set
\* exactly when the peer closed the connection before maxBytes bytes had
\* been read in the call, and then returns the count read before the
\* close, which is less than maxBytes.
C6_EofOnCloseAnyMax ==
    RecvAllReturned =>
        /\ bEOF <=> (raCause = "closed" /\ raGot < maxBytes)
        /\ bEOF => /\ bytesReadSoFar = raGot
                   /\ bytesReadSoFar < maxBytes

\* C6: for every maxBytes > 0, recvAll returns with eof set exactly when
\* the peer closed the connection before maxBytes bytes had been read in
\* the call, and then returns the count read before the close, which is
\* less than maxBytes.
C6_EofOnClose ==
    (RecvAllReturned /\ maxBytes > 0) =>
        /\ bEOF <=> (raCause = "closed" /\ raGot < maxBytes)
        /\ bEOF => /\ bytesReadSoFar = raGot
                   /\ bytesReadSoFar < maxBytes

\* C6 witness: the peer closed in the middle of a buffer, and recvAll
\* returned the bytes read before the close with eof set.
C6_Witness ==
    /\ RecvAllReturned
    /\ maxBytes > 0
    /\ raCause = "closed"
    /\ bEOF
    /\ raGot > 0

\* C7: when select times out, recvAll returns -1 with eof false whatever
\* it had accumulated, and the call is over.
C7_TimeoutReturn ==
    raCause = "timeout" =>
        /\ bytesReadSoFar = 0 - 1
        /\ ~bEOF
        /\ cliPc # "select"

\* C7 witness: the timeout came after part of the buffer had been read.
C7_Witness ==
    /\ raCause = "timeout"
    /\ raGot > 0

NoFrameChar(m) == ~HasChar(m, "|") /\ ~HasChar(m, "\n")

\* C8: a frame encoded from secs >= 0, bytes > 0 and a message without
\* "|" or newline decodes to the same three values.
C8_RoundTrip ==
    (/\ srvPc = "generate"
     /\ bufFromClient = buf
     /\ settings.secs >= 0
     /\ settings.bytes_per_buf > 0
     /\ NoFrameChar(settings.msg)) =>
        /\ secsToSend = settings.secs
        /\ bytesPerBuf = settings.bytes_per_buf
        /\ msgFromClient = settings.msg

\* C9: a frame whose trailing tokens are missing decodes with the fields
\* of the tokens present, 0 for a missing integer and the empty string
\* for a missing message.
C9_MissingTokensDefault ==
    srvPc = "generate" =>
        \A c \in CutShapes :
            bufFromClient = CutFrame(settings, c.k, c.bar, c.nl) =>
                /\ secsToSend = (IF c.k >= 2 THEN settings.secs ELSE 0)
                /\ bytesPerBuf =
                       (IF c.k >= 3 THEN settings.bytes_per_buf ELSE 0)
                /\ msgFromClient = <<>>

\* C10: whatever a client sends, the server process stays alive and
\* returns to accept.
C10_ServerSurvives == srvPc # "terminated"


\* C11: the final report is printed at most once, only in a pass whose
\* recvAll call set eof, and it ends the receive loop: after it the client
\* prints no interim report and calls recvAll no more.
C11_FinalReportLast ==
    [][/\ nFinal' <= 1
       /\ nFinal' # nFinal => (bEOF' /\ cliPc' = "exit")
       /\ nFinal = 1 => /\ nFinal' = 1
                        /\ nInterim' = nInterim
                        /\ nCallsToTimer' = nCallsToTimer
                        /\ cliPc' = "exit"]_vars

\* C11 witness: a session that printed an interim report and then, at the
\* end of the stream, its final report.
C11_Witness ==
    /\ nFinal = 1
    /\ nInterim >= 1
    /\ nCallsToTimer >= 2
    /\ cliPc = "exit"

\* C12: the client's cumulative byte count never goes down and is never
\* negative, whatever recvAll returned.
C12_TotalNeverNegative == totBytesRec >= 0

\* ------------------------------------------------------------- progress
\* The kernel hands a readable socket's bytes, and its end of stream, to a
\* client that keeps asking: the recv calls of recvAll that have something
\* to return do return.
SpecLive == Spec /\ WF_vars(CliRecvData) /\ WF_vars(CliRecvZero)

\* C13: once the server has closed the connection of a client that is in
\* its receive loop, the client eventually gets the end of stream from
\* recvAll, prints its final report and leaves the loop.
C13_ClientReachesDone ==
    (connSt["cli"] = "closed" /\ InRecvAll)
        ~> (cliPc = "exit" /\ nFinal = 1 /\ bEOF)

\* C13 witness: the client left the loop with its final report after the
\* server's close, having received bytes.
C13_Witness ==
    /\ connSt["cli"] = "closed"
    /\ cliPc = "exit"
    /\ nFinal = 1
    /\ raCause = "closed"
    /\ totBytesRec > 0


\* A command line the program is to refuse: it has a bare "-", an option
\* it does not know, a word that is no option or a mode that is neither
\* server nor client, or it names no mode.
Malformed(args) ==
    \/ \E j \in 1..Len(args) :
          args[j] \in {ArgDash, ArgUnknown, ArgPlain, ArgModeOther}
    \/ ~\E j \in 1..Len(args) : args[j] \in {ArgModeServer, ArgModeClient}

\* C14: the exit code is 0 on normal completion, the errno of connect()
\* when the connection fails, and not 0 when the command line is
\* malformed.
C14_ExitCodes ==
    cliPc = "exit" =>
        IF Malformed(argv) THEN retval # 0
        ELSE retval \in {0, 3} \cup ErrnoSet


\* C15: the payload buffer of n bytes has exactly n bytes, starts with 'A',
\* holds printable bytes only, and each byte is its predecessor plus one,
\* or 'A' where that would not be printable; so it is a function of n.
C15_Payload ==
    srvPc \in {"send", "sendRet"} =>
        /\ Len(pbuf) = bytesPerBuf
        /\ bytesPerBuf >= 1 => pbuf[1] = 65
        /\ \A i \in 1..Len(pbuf) : pbuf[i] >= 32 /\ pbuf[i] <= 126
        /\ \A i \in 1..(Len(pbuf) - 1) :
              pbuf[i + 1] = (IF pbuf[i] + 1 <= 126 THEN pbuf[i] + 1 ELSE 65)
        /\ bytesPerBuf >= 5 => SubSeq(pbuf, 1, 5) = <<65, 66, 67, 68, 69>>

\* C15 witness: a buffer long enough for the byte to have come round to
\* 'A' again after '~' (126).
C15_Witness ==
    /\ srvPc = "send"
    /\ Len(pbuf) >= 63
    /\ pbuf[62] = 126
    /\ pbuf[63] = 65


\* A step is a pass of the receive loop's body.
LoopPass == nCallsToTimer' = nCallsToTimer + 1

\* The pass prints an interim line and resets the interim counters.
InterimDone ==
    /\ nInterim' = nInterim + 1
    /\ bytesRecSinceLastUIUpdate' = 0
    /\ timeLastUIUpdate' = cliClock'

\* The pass prints no interim line and resets nothing.
InterimSkipped ==
    /\ nInterim' = nInterim
    /\ timeLastUIUpdate' = timeLastUIUpdate
    /\ bytesRecSinceLastUIUpdate' = bytesRecSinceLastUIUpdate + nBytesRec'

\* C16, as stated: after every recvAll return the client prints an interim
\* line and resets the interim counters if at least 1 second has passed
\* since the last interim line (or the start), and prints and resets
\* nothing if less has.
C16_InterimEverySecond ==
    [][LoopPass =>
          IF cliClock' - timeLastUIUpdate >= 1 THEN InterimDone
          ELSE InterimSkipped]_vars

\* C16: after every recvAll return of n >= 0 bytes the client prints an
\* interim line and resets the interim counters if n > 0 and at least 1
\* second has passed since the last interim line (or the start), and
\* prints and resets nothing if n = 0 or less than 1 second has passed.
C16_InterimWhenBytes ==
    [][(LoopPass /\ nBytesRec' >= 0) =>
          IF nBytesRec' > 0 /\ cliClock' - timeLastUIUpdate >= 1
          THEN InterimDone
          ELSE InterimSkipped]_vars

\* C16 witness: a pass has just printed an interim line for a full buffer.
C16_Witness ==
    /\ cliPc = "loop"
    /\ raCause = "full"
    /\ nInterim = 1
    /\ nBytesRec > 0
    /\ bytesRecSinceLastUIUpdate = 0
    /\ timeLastUIUpdate = cliClock
    /\ cliClock >= 1


\* C17: every send call of sendAll asks only for bytes of the caller's
\* buffer that are not sent yet (offset + requested length <= nbytes), so
\* that a successful sendAll has sent exactly nbytes bytes.
C17_SendWithinBuffer ==
    \A proc \in Procs :
        /\ PcOf(proc) = "send" =>
              sa[proc].offset + nBytesToSend(sa[proc]) <= sa[proc].nbytes
        /\ (PcOf(proc) = "sendRet" /\ sa[proc].bOK) =>
              sa[proc].totSent = sa[proc].nbytes


\* C18: in the streaming loop the server enters sendAll again only after a
\* sendAll that succeeded and with the elapsed time measured after it
\* below the duration; otherwise it enters no further sendAll and closes
\* the connection, and a failed sendAll adds nothing to the bytes-sent
\* total and the send count.
C18_StreamingLoop ==
    [][/\ (srvPc = "sendRet" /\ srvPc' # "sendRet") =>
              IF sa["server"].bOK
              THEN /\ totBytesSent' = totBytesSent + bytesPerBuf
                   /\ nSends' = nSends + 1
                   /\ srvPc' = (IF secsSinceStart' < secsToSend
                                THEN "send" ELSE "close")
              ELSE /\ totBytesSent' = totBytesSent
                   /\ nSends' = nSends
                   /\ srvPc' = "close"
       /\ (srvPc # "send" /\ srvPc' = "send") =>
              srvPc \in {"generate", "sendRet"}
       /\ (srvPc = "close" /\ srvPc' # "close") =>
              /\ srvPc' = "accept"
              /\ connSt'[socket_to_client] = "closed"]_vars

\* C18 witness: the loop has ended after a second sendAll, on the elapsed
\* time reaching the duration.
C18_Witness ==
    /\ srvPc = "close"
    /\ nSends = 2
    /\ secsToSend = 1
    /\ secsSinceStart >= secsToSend
    /\ bytesPerBuf > 0


\* The counters of the read loop: stored bytes and free space add up to
\* the buffer less its terminator, a recv is called with free space left
\* and the NUL goes to an index within the buffer; and the loop has ended
\* on a newline, a full buffer, the peer's close or a failed recv.  The
\* newline test looks at text, the bytes stored so far as the test is
\* given them.
ReadLoopInv(text) ==
    /\ srvPc \in {"negotiate", "decode"} =>
          /\ nBytesSoFar + freeBytes = BufSize - 1
          /\ nBytesSoFar >= 0 /\ nBytesSoFar <= BufSize - 1
          /\ Len(bufFromClient) = nBytesSoFar
          /\ nbytes <= BufSize - 1
    /\ srvPc = "negotiate" =>
          /\ freeBytes >= 1
          /\ ~HasChar(text, "\n")
          /\ readEnd = "none"
    /\ srvPc = "decode" =>
          \/ readEnd = "newline" /\ HasChar(text, "\n")
          \/ readEnd = "full" /\ nBytesSoFar = BufSize - 1
                /\ ~HasChar(text, "\n")
          \/ readEnd = "closed" /\ nbytes = 0
          \/ readEnd = "error" /\ nbytes < 0

\* C19, as stated: the read loop keeps nBytesSoFar + freeBytes = 255, never
\* calls recv without free space, writes the NUL within the buffer, and
\* stops as soon as a newline is in the buffer, the buffer holds 255
\* bytes, the peer closed or recv failed.
C19_ReadLoopAnyBytes == ReadLoopInv(bufFromClient)

\* What the read loop does keep: the same, with the newline looked for
\* where strchr looks, in the bytes before the first NUL byte.
ReadLoopOnCString == ReadLoopInv(CStr(bufFromClient))

\* The loop has ended on a full buffer.
ReadLoopFull ==
    /\ srvPc = "decode"
    /\ readEnd = "full"
    /\ nBytesSoFar = BufSize - 1
    /\ freeBytes = 0


\* The client's session is over with a final report after a clean end of
\* stream, it is the only session the server has served, and both sides
\* used the same buffer size, a positive one.
CleanSessionOver ==
    /\ cliPc = "exit"
    /\ nFinal = 1
    /\ bEOF
    /\ connSt["cli"] = "closed"
    /\ connSt["other"] \notin {"accepted", "closed"}
    /\ srvPc = "accept"
    /\ bytesPerBuf = settings.bytes_per_buf
    /\ bytesPerBuf > 0

\* C20: when a session has ended with a clean end of stream at the client
\* and both sides used the same buffer size, the client's total of bytes
\* received equals the server's total of bytes sent.
C20_TotalsAgree == CleanSessionOver => totBytesRec = totBytesSent


\* The server's end of the session's connection goes from open to closed.
SessionCloses ==
    /\ socket_to_client # NoSock
    /\ connSt[socket_to_client] = "accepted"
    /\ connSt'[socket_to_client] = "closed"

\* A sendAll of the streaming loop returns to the loop.
SendAllReturns == srvPc = "sendRet" /\ srvPc' # "sendRet"

\* With a duration of 0 a successful sendAll is the only one of the
\* session: one buffer is counted and the connection is closed next.
OneBufferOnZeroSecs ==
    (SendAllReturns /\ secsToSend = 0 /\ sa["server"].bOK) =>
        /\ nSends' = 1
        /\ totBytesSent' = bytesPerBuf
        /\ srvClock' >= srvClock
        /\ srvPc' = "close"

\* C21: the connection of an accepted session is closed only after a
\* sendAll of the session has been entered and has returned, whatever the
\* duration and however the read of the control frame ended; and with a
\* duration of 0 a successful sendAll counts exactly one buffer of
\* bytesPerBuf bytes as sent.
C21_SendAllBeforeClose ==
    [][/\ SessionCloses => srvPc = "close"
       /\ (srvPc # "close" /\ srvPc' = "close") => srvPc = "sendRet"
       /\ (srvPc # "sendRet" /\ srvPc' = "sendRet") => srvPc = "send"
       /\ OneBufferOnZeroSecs]_vars

\* What does hold: the same for the sessions whose buffer the server can
\* allocate.
SendAllBeforeCloseIfAllocated ==
    [][/\ (SessionCloses /\ ~NewArrayThrows(bytesPerBuf)) => srvPc = "close"
       /\ (srvPc # "close" /\ srvPc' = "close") => srvPc = "sendRet"
       /\ (srvPc # "sendRet" /\ srvPc' = "sendRet") => srvPc = "send"
       /\ OneBufferOnZeroSecs]_vars

\* A session whose control frame never came whole is closed after one
\* sendAll with a duration of 0.
ClosedAfterIncompleteFrame ==
    /\ srvPc = "close"
    /\ readEnd \in {"closed", "error"}
    /\ secsToSend = 0
    /\ nSends = 1
    /\ bytesPerBuf > 0

====
